---- MODULE Spec2Model ----
(***************************************************************************)
(* Model of package serial (lpar/serial): a Generator that issues unique,  *)
(* strictly increasing Serial numbers derived from the nanosecond clock,   *)
(* and keeps a set of "seen" Serials with age-based expiry.                *)
(*                                                                         *)
(* One Generator is shared by a fixed set of threads.  Each                *)
(* thread repeatedly calls one of Generate, Seen, SetSeen, ExpireSeen and  *)
(* executes it statement by statement; pc[t] is the statement of           *)
(* src/serial.go the thread is about to execute.  The wall clock is a      *)
(* variable of the environment that may advance or be set back at any      *)
(* moment.                                                                 *)
(*                                                                         *)
(* Serial is int64 in the source.  The model keeps two's-complement        *)
(* wrap-around but scales the width down to SerialBits bits, so that the   *)
(* clock can bring lastSerial to the greatest Serial.                      *)
(*                                                                         *)
(* Three specifications run the same program and differ in the history     *)
(* they keep: Spec keeps the clock reading of each call, the bag of        *)
(* returned Serials and the marked set; SpecCaller adds the caller's view  *)
(* of every Generate call; SpecAge adds the generation time of every       *)
(* returned Serial and marks only Serials that Generate has returned.      *)
(* Three more change the surroundings: SpecEpoch starts the program with   *)
(* a clock at or before the Unix epoch, SpecTwo puts a second Generator    *)
(* beside the first, and SpecFair adds the scheduling of the Go runtime    *)
(* and the writer that waits for the readers of a sync.RWMutex.            *)
(***************************************************************************)
EXTENDS Integers, FiniteSets, Bags, TLC

\* ------------------------------------------------------------------ bounds
MaxClock == 2
MaxAge == 1

\* ----------------------------------------------------------- Serial (int64)
SerialBits == 3
MinSerial == -(2 ^ (SerialBits - 1))
MaxSerial == (2 ^ (SerialBits - 1)) - 1
Serials == MinSerial .. MaxSerial

\* Two's-complement wrap-around of the Go integer type.
Wrap(n) == ((n - MinSerial) % (2 ^ SerialBits)) + MinSerial

\* The goroutines that share the Generator.
Threads == {"t1", "t2"}
\* Readings of time.Now().UnixNano(): a time after the Unix epoch.
ClockValues == 1 .. MaxClock
\* Readings of a clock that may also stand at or before the epoch.
EpochClockValues == (-1) .. MaxClock
\* time.Duration arguments given to ExpireSeen.
Durations == 0 .. MaxAge
\* Serial arguments given to Seen and SetSeen: any value, issued or forged,
\* before, at or after the clock.
SerialArgs == 0 .. (MaxSerial - 1)

NoThread == "none"
None == MinSerial - 1

VARIABLES
    clock,       \* the wall clock, in nanoseconds since the epoch
    lastmutex,   \* Generator.lastmutex
    lastSerial,  \* Generator.lastSerial
    seenmutex,   \* Generator.seenmutex
    seen,        \* Generator.seen (the keys of the map)
    pc,          \* per thread: the statement it is about to execute
    id,          \* Generate: local id
    x,           \* Seen, SetSeen: parameter x
    ok,          \* Seen: local ok
    agelimit,    \* ExpireSeen: parameter agelimit
    limit,       \* ExpireSeen: local limit
    todo,        \* ExpireSeen: keys the range loop has not produced yet
    tnow,        \* history: the clock reading the running call took
    sample,      \* history (SpecCaller): the clock the caller sampled before Generate
    floor,       \* history (SpecCaller): greatest Serial returned before the call began
    snap,        \* history: the seen-set when ExpireSeen took the lock
    issued,      \* history: bag of the Serials returned by Generate
    live,        \* history: marked by SetSeen and not removed by ExpireSeen since
    genAt,       \* history (SpecAge): <<id, clock reading>> of each returned Generate
    peer,        \* (SpecTwo) a second Generator, made by its own NewGenerator call
    peerLive     \* history (SpecTwo): marked on peer and not expired on peer since

vars == <<clock, lastmutex, lastSerial, seenmutex, seen, pc, id, x, ok,
          agelimit, limit, todo, tnow, sample, floor, snap, issued, live,
          genAt, peer, peerLive>>

genState == <<lastmutex, lastSerial>>
seenState == <<seenmutex, seen>>
genLocals == <<id, sample, floor>>
seenLocals == <<x, ok>>
expLocals == <<agelimit, limit, todo, snap>>
hist == <<issued, live, genAt>>
peerState == <<peer, peerLive>>

\* ------------------------------------------------------------ sync.RWMutex
\* A RWMutex is [writer |-> the thread holding Lock or NoThread,
\*               readers |-> the threads holding RLock,
\*               pending |-> the thread whose Lock call waits for the readers
\*                           to leave, or NoThread].
\* A Lock call that finds readers inside bars further RLock and Lock calls
\* until it has taken and released the lock.
FreeMutex == [writer |-> NoThread, readers |-> {}, pending |-> NoThread]
\* Mutant of CanLock: the lock is taken without waiting for its holder.
CanLockUnguarded(m) == TRUE
CanLock(m) == m.writer = NoThread /\ m.readers = {}
\* No Lock call of another thread waits on m.
NotBarred(m, t) == m.pending \in {NoThread, t}
Lock(m, t) == [m EXCEPT !.writer = t, !.pending = NoThread]
Unlock(m, t) == [m EXCEPT !.writer = NoThread]
\* The Lock call of t finds readers inside and begins to wait.
CanPend(m) == m.writer = NoThread /\ m.pending = NoThread /\ m.readers # {}
Pend(m, t) == [m EXCEPT !.pending = t]
\* Mutant of CanRLock: a reader does not wait for the writer.
CanRLockUnguarded(m) == TRUE
CanRLock(m) == m.writer = NoThread /\ m.pending = NoThread
RLock(m, t) == [m EXCEPT !.readers = @ \cup {t}]
RUnlock(m, t) == [m EXCEPT !.readers = @ \ {t}]

\* ------------------------------------------------------------------ helpers
Max(S) == CHOOSE m \in S : \A n \in S : n <= m
IssuedIds == BagToSet(issued)
\* Mutant of MapStore: the key is written to a copy and lost.
MapStoreLost(m, k) == m
\* Mutant of MapStore: the map is made anew for every key.
MapStoreFresh(m, k) == {k}
\* Mutant of MapStore: storing a present key removes it.
MapStoreToggle(m, k) == IF k \in m THEN m \ {k} ELSE m \cup {k}
\* g.seen[x] = struct{}{}
MapStore(m, k) == m \cup {k}
\* _, ok := g.seen[x]
MapHas(m, k) == k \in m
\* delete(g.seen, tok)
MapDelete(m, k) == m \ {k}
\* Mutant of ToSerial: a coarser unit than nanoseconds is taken.
ToSerialCoarse(nanos) == Wrap(nanos \div 2)
\* Serial(time.Now().UnixNano())
ToSerial(nanos) == Wrap(nanos)
\* Mutant of RatchetBehind: the clock reading is taken as it is.
RatchetBehindNever(i, last) == FALSE
\* Mutant of RatchetBehind: < for <=.
RatchetBehindStrict(i, last) == i < last
\* for id <= g.lastSerial
RatchetBehind(i, last) == i <= last
\* Mutant of RatchetStep: the step is two.
RatchetStepTwo(i) == Wrap(i + 2)
\* id = id + 1
RatchetStep(i) == Wrap(i + 1)
\* time.Now().Add(-agelimit).UnixNano()
Cutoff(now, age) == Wrap(now - age)
\* Mutant of Expired: <= for <.
ExpiredInclusive(tok, lim) == tok <= lim
\* int64(tok) < limit
Expired(tok, lim) == tok < lim

\* ------------------------------------------------------------- NewGenerator
\* Mutant of NewGenerator: the ratchet starts above zero.
NewGeneratorAhead ==
    [lastmutex |-> FreeMutex, lastSerial |-> 1,
     seenmutex |-> FreeMutex, seen |-> {}]
\* g := &Generator{}; g.seen = make(map[Serial]struct{}): the fields not
\* named keep their zero values.
NewGenerator ==
    [lastmutex |-> FreeMutex, lastSerial |-> 0,
     seenmutex |-> FreeMutex, seen |-> {}]

\* --------------------------------------------------------------------- Init
\* The Generator the threads share is made by NewGenerator, and so is peer.
\* No call has begun.
Constructed ==
    /\ lastmutex = NewGenerator.lastmutex
    /\ lastSerial = NewGenerator.lastSerial
    /\ seenmutex = NewGenerator.seenmutex
    /\ seen = NewGenerator.seen
    /\ peer = NewGenerator
    /\ peerLive = {}
    /\ pc = [t \in Threads |-> "idle"]
    /\ id = [t \in Threads |-> None]
    /\ x = [t \in Threads |-> None]
    /\ ok = [t \in Threads |-> FALSE]
    /\ agelimit = [t \in Threads |-> 0]
    /\ limit = [t \in Threads |-> None]
    /\ todo = [t \in Threads |-> {}]
    /\ tnow = [t \in Threads |-> None]
    /\ sample = [t \in Threads |-> None]
    /\ floor = [t \in Threads |-> None]
    /\ snap = [t \in Threads |-> {}]
    /\ issued = EmptyBag
    /\ live = {}
    /\ genAt = {}

Init == clock \in ClockValues /\ Constructed

\* -------------------------------------------------------------------- clock
ClockAdvance ==
    /\ \E c \in ClockValues : c > clock /\ clock' = c
    /\ UNCHANGED <<peerState, genState, seenState, pc, genLocals, seenLocals, expLocals,
                   tnow, hist>>

ClockSetBack ==
    /\ \E c \in ClockValues : c < clock /\ clock' = c
    /\ UNCHANGED <<peerState, genState, seenState, pc, genLocals, seenLocals, expLocals,
                   tnow, hist>>

\* ----------------------------------------------------------------- Generate
\* A caller invokes Generate.
GenInvoke(t) ==
    /\ pc[t] = "idle"
    /\ pc' = [pc EXCEPT ![t] = "gen_lock"]
    /\ UNCHANGED <<peerState, clock, genState, seenState, id, seenLocals, expLocals,
                   tnow, hist>>

GenCall(t) == GenInvoke(t) /\ UNCHANGED <<sample, floor>>

\* The call, with the caller's view kept as history: the clock the caller
\* sampled just before, and the greatest Serial any call had returned by then.
GenCallObserved(t) ==
    /\ GenInvoke(t)
    /\ sample' = [sample EXCEPT ![t] = clock]
    /\ floor' = [floor EXCEPT ![t] =
                    IF IssuedIds = {} THEN None ELSE Max(IssuedIds)]

\* Mutant of GenLock: one lock guards the ratchet and the seen-set.
GenLockShared(t) ==
    /\ pc[t] = "gen_lock"
    /\ CanLock(lastmutex) /\ NotBarred(lastmutex, t) /\ CanLock(seenmutex)
    /\ lastmutex' = Lock(lastmutex, t)
    /\ pc' = [pc EXCEPT ![t] = "gen_now"]
    /\ UNCHANGED <<peerState, clock, lastSerial, seenState, genLocals,
                   seenLocals, expLocals, tnow, hist>>

\* g.lastmutex.Lock()
GenLock(t) ==
    /\ pc[t] = "gen_lock"
    /\ CanLock(lastmutex) /\ NotBarred(lastmutex, t)
    /\ lastmutex' = Lock(lastmutex, t)
    /\ pc' = [pc EXCEPT ![t] = "gen_now"]
    /\ UNCHANGED <<peerState, clock, lastSerial, seenState, genLocals, seenLocals,
                   expLocals, tnow, hist>>

\* id := Serial(time.Now().UnixNano())
GenNow(t) ==
    /\ pc[t] = "gen_now"
    /\ id' = [id EXCEPT ![t] = ToSerial(clock)]
    /\ tnow' = [tnow EXCEPT ![t] = clock]
    /\ pc' = [pc EXCEPT ![t] = "gen_loop"]
    /\ UNCHANGED <<peerState, clock, genState, seenState, sample, floor, seenLocals,
                   expLocals, hist>>

\* Mutant of GenLoop: an if statement for the for statement.
GenLoopOnce(t) ==
    /\ pc[t] = "gen_loop"
    /\ RatchetBehind(id[t], lastSerial)
    /\ id' = [id EXCEPT ![t] = RatchetStep(id[t])]
    /\ pc' = [pc EXCEPT ![t] = "gen_store"]
    /\ UNCHANGED <<peerState, clock, genState, seenState, sample, floor,
                   seenLocals, expLocals, tnow, hist>>

\* for id <= g.lastSerial { id = id + 1 }: one iteration
GenLoop(t) ==
    /\ pc[t] = "gen_loop"
    /\ RatchetBehind(id[t], lastSerial)
    /\ id' = [id EXCEPT ![t] = RatchetStep(id[t])]
    /\ UNCHANGED <<peerState, clock, genState, seenState, pc, sample, floor, seenLocals,
                   expLocals, tnow, hist>>

\* for id <= g.lastSerial: the condition fails and the loop ends
GenLoopEnd(t) ==
    /\ pc[t] = "gen_loop"
    /\ ~RatchetBehind(id[t], lastSerial)
    /\ pc' = [pc EXCEPT ![t] = "gen_store"]
    /\ UNCHANGED <<peerState, clock, genState, seenState, genLocals, seenLocals,
                   expLocals, tnow, hist>>

\* Mutant of GenStore: Generate marks the Serial it issues as seen.
GenStoreMarking(t) ==
    /\ pc[t] = "gen_store"
    /\ lastSerial' = id[t]
    /\ seen' = MapStore(seen, id[t])
    /\ pc' = [pc EXCEPT ![t] = "gen_unlock"]
    /\ UNCHANGED <<peerState, clock, lastmutex, seenmutex, genLocals,
                   seenLocals, expLocals, tnow, hist>>

\* g.lastSerial = id
GenStore(t) ==
    /\ pc[t] = "gen_store"
    /\ lastSerial' = id[t]
    /\ pc' = [pc EXCEPT ![t] = "gen_unlock"]
    /\ UNCHANGED <<peerState, clock, lastmutex, seenState, genLocals, seenLocals,
                   expLocals, tnow, hist>>

\* g.lastmutex.Unlock(); return id
GenReturns(t) ==
    /\ pc[t] = "gen_unlock"
    /\ lastmutex' = Unlock(lastmutex, t)
    /\ issued' = issued (+) SetToBag({id[t]})
    /\ pc' = [pc EXCEPT ![t] = "idle"]
    /\ id' = [id EXCEPT ![t] = None]
    /\ tnow' = [tnow EXCEPT ![t] = None]
    /\ sample' = [sample EXCEPT ![t] = None]
    /\ floor' = [floor EXCEPT ![t] = None]
    /\ UNCHANGED <<peerState, clock, lastSerial, seenState, seenLocals, expLocals, live>>

GenUnlock(t) == GenReturns(t) /\ UNCHANGED genAt

\* The same step, with the clock reading of the call kept as history.
GenUnlockAt(t) == GenReturns(t) /\ genAt' = genAt \cup {<<id[t], tnow[t]>>}

\* --------------------------------------------------------------------- Seen
SeenCall(t) ==
    /\ pc[t] = "idle"
    /\ \E v \in SerialArgs : x' = [x EXCEPT ![t] = v]
    /\ pc' = [pc EXCEPT ![t] = "seen_rlock"]
    /\ UNCHANGED <<peerState, clock, genState, seenState, genLocals, ok, expLocals,
                   tnow, hist>>

\* g.seenmutex.RLock()
SeenRLock(t) ==
    /\ pc[t] = "seen_rlock"
    /\ CanRLock(seenmutex)
    /\ seenmutex' = RLock(seenmutex, t)
    /\ pc' = [pc EXCEPT ![t] = "seen_read"]
    /\ UNCHANGED <<peerState, clock, genState, seen, genLocals, seenLocals, expLocals,
                   tnow, hist>>

\* _, ok := g.seen[x]
SeenRead(t) ==
    /\ pc[t] = "seen_read"
    /\ ok' = [ok EXCEPT ![t] = MapHas(seen, x[t])]
    /\ pc' = [pc EXCEPT ![t] = "seen_runlock"]
    /\ UNCHANGED <<peerState, clock, genState, seenState, genLocals, x, expLocals,
                   tnow, hist>>

\* g.seenmutex.RUnlock(); return ok
SeenRUnlock(t) ==
    /\ pc[t] = "seen_runlock"
    /\ seenmutex' = RUnlock(seenmutex, t)
    /\ pc' = [pc EXCEPT ![t] = "idle"]
    /\ x' = [x EXCEPT ![t] = None]
    /\ ok' = [ok EXCEPT ![t] = FALSE]
    /\ UNCHANGED <<peerState, clock, genState, seen, genLocals, expLocals, tnow,
                   hist>>

\* ------------------------------------------------------------------ SetSeen
\* SetSeen is called with a Serial out of the set from.
SetSeenInvoke(t, from) ==
    /\ pc[t] = "idle"
    /\ \E v \in from : x' = [x EXCEPT ![t] = v]
    /\ pc' = [pc EXCEPT ![t] = "set_lock"]
    /\ UNCHANGED <<peerState, clock, genState, seenState, genLocals, ok, expLocals,
                   tnow, hist>>

\* Any Serial may be marked.
SetSeenCall(t) == SetSeenInvoke(t, SerialArgs)

\* The nonce use: a Serial that Generate has returned is marked.
SetSeenCallIssued(t) == SetSeenInvoke(t, IssuedIds)

\* g.seenmutex.Lock()
SetSeenLock(t) ==
    /\ pc[t] = "set_lock"
    /\ CanLock(seenmutex) /\ NotBarred(seenmutex, t)
    /\ seenmutex' = Lock(seenmutex, t)
    /\ pc' = [pc EXCEPT ![t] = "set_store"]
    /\ UNCHANGED <<peerState, clock, genState, seen, genLocals, seenLocals, expLocals,
                   tnow, hist>>

\* g.seen[x] = struct{}{}
SetSeenStore(t) ==
    /\ pc[t] = "set_store"
    /\ seen' = MapStore(seen, x[t])
    /\ live' = live \cup {x[t]}
    /\ pc' = [pc EXCEPT ![t] = "set_unlock"]
    /\ UNCHANGED <<peerState, clock, genState, seenmutex, genLocals, seenLocals,
                   expLocals, tnow, issued, genAt>>

\* g.seenmutex.Unlock() and return
SetSeenUnlock(t) ==
    /\ pc[t] = "set_unlock"
    /\ seenmutex' = Unlock(seenmutex, t)
    /\ pc' = [pc EXCEPT ![t] = "idle"]
    /\ x' = [x EXCEPT ![t] = None]
    /\ UNCHANGED <<peerState, clock, genState, seen, genLocals, ok, expLocals, tnow,
                   hist>>

\* --------------------------------------------------------------- ExpireSeen
ExpireCall(t) ==
    /\ pc[t] = "idle"
    /\ \E a \in Durations : agelimit' = [agelimit EXCEPT ![t] = a]
    /\ pc' = [pc EXCEPT ![t] = "exp_lock"]
    /\ UNCHANGED <<peerState, clock, genState, seenState, genLocals, seenLocals, limit,
                   todo, snap, tnow, hist>>

\* g.seenmutex.Lock()
ExpireLock(t) ==
    /\ pc[t] = "exp_lock"
    /\ CanLock(seenmutex) /\ NotBarred(seenmutex, t)
    /\ seenmutex' = Lock(seenmutex, t)
    /\ snap' = [snap EXCEPT ![t] = seen]
    /\ pc' = [pc EXCEPT ![t] = "exp_limit"]
    /\ UNCHANGED <<peerState, clock, genState, seen, genLocals, seenLocals, agelimit,
                   limit, todo, tnow, hist>>

\* limit := time.Now().Add(-agelimit).UnixNano(); the range loop begins
ExpireLimit(t) ==
    /\ pc[t] = "exp_limit"
    /\ limit' = [limit EXCEPT ![t] = Cutoff(clock, agelimit[t])]
    /\ tnow' = [tnow EXCEPT ![t] = clock]
    /\ todo' = [todo EXCEPT ![t] = seen]
    /\ pc' = [pc EXCEPT ![t] = "exp_range"]
    /\ UNCHANGED <<peerState, clock, genState, seenState, genLocals, seenLocals,
                   agelimit, snap, hist>>

\* for tok := range g.seen { if int64(tok) < limit { delete(g.seen, tok) } }
\* One iteration; the map yields its keys in an unspecified order.
ExpireRange(t) ==
    /\ pc[t] = "exp_range"
    /\ IF todo[t] = {}
         THEN /\ pc' = [pc EXCEPT ![t] = "exp_unlock"]
              /\ UNCHANGED <<peerState, seen, todo, live>>
         ELSE \E tok \in todo[t] :
              /\ seen' = IF Expired(tok, limit[t])
                           THEN MapDelete(seen, tok) ELSE seen
              /\ live' = live \ (seen \ seen')
              /\ todo' = [todo EXCEPT ![t] = @ \ {tok}]
              /\ pc' = pc
    /\ UNCHANGED <<peerState, clock, genState, seenmutex, genLocals, seenLocals,
                   agelimit, limit, snap, tnow, issued, genAt>>

\* g.seenmutex.Unlock() and return
ExpireUnlock(t) ==
    /\ pc[t] = "exp_unlock"
    /\ seenmutex' = Unlock(seenmutex, t)
    /\ pc' = [pc EXCEPT ![t] = "idle"]
    /\ agelimit' = [agelimit EXCEPT ![t] = 0]
    /\ limit' = [limit EXCEPT ![t] = None]
    /\ snap' = [snap EXCEPT ![t] = {}]
    /\ tnow' = [tnow EXCEPT ![t] = None]
    /\ UNCHANGED <<peerState, clock, genState, seen, genLocals, seenLocals, todo,
                   hist>>

\* ------------------------------------------------------- a waiting writer
\* g.seenmutex.Lock() in SetSeen or ExpireSeen, when Seen calls are inside:
\* the call begins to wait for them and bars the calls that come after it.
SeenLockPend(t) ==
    /\ pc[t] \in {"set_lock", "exp_lock"}
    /\ CanPend(seenmutex)
    /\ seenmutex' = Pend(seenmutex, t)
    /\ UNCHANGED <<peerState, clock, genState, seen, pc, genLocals,
                   seenLocals, expLocals, tnow, hist>>

\* ------------------------------------------------- the second Generator
\* peer is used by a goroutine of its own, one call after the other, so
\* each of its calls is one step: the result of the method's statements on
\* the Generator its receiver g points to.

\* The Generator the threads share, as one value.
Shared ==
    [lastmutex |-> lastmutex, lastSerial |-> lastSerial,
     seenmutex |-> seenmutex, seen |-> seen]

\* Mutant of Receiver: the methods work on one process-wide Generator.
ReceiverSingleton(g) == Shared
\* func (g *Generator): the Generator a method called on g works on.
Receiver(g) == g

\* for id <= g.lastSerial { id = id + 1 }, run to its end
RECURSIVE Ratchet(_, _)
Ratchet(i, last) ==
    IF RatchetBehind(i, last) THEN Ratchet(RatchetStep(i), last) ELSE i

\* Generate on g at the clock reading now: g afterwards.
Generate(g, now) ==
    [g EXCEPT !.lastSerial = Ratchet(ToSerial(now), g.lastSerial)]
\* Seen(x) on g: the answer; g stays as it is.
Seen(g, v) == MapHas(g.seen, v)
\* SetSeen(x) on g: g afterwards.
SetSeen(g, v) == [g EXCEPT !.seen = MapStore(g.seen, v)]
\* ExpireSeen(agelimit) on g at the clock reading now: g afterwards.
ExpireSeen(g, now, age) ==
    [g EXCEPT !.seen = {tok \in g.seen : ~Expired(tok, Cutoff(now, age))}]

aState == <<clock, genState, seenState, pc, genLocals, seenLocals, expLocals,
            tnow, hist>>

\* peer.Generate(); when peer.lastSerial is the greatest Serial the loop
\* has no end and the call does not return.
PeerGenerate ==
    /\ Receiver(peer).lastSerial < MaxSerial
    /\ peer' = Generate(Receiver(peer), clock)
    /\ UNCHANGED <<aState, peerLive>>

\* peer.SetSeen(v)
PeerSetSeen ==
    /\ \E v \in SerialArgs :
           /\ peer' = SetSeen(Receiver(peer), v)
           /\ peerLive' = peerLive \cup {v}
    /\ UNCHANGED aState

\* peer.ExpireSeen(a)
PeerExpireSeen ==
    /\ \E a \in Durations :
           /\ peer' = ExpireSeen(Receiver(peer), clock, a)
           /\ peerLive' = {v \in peerLive : ~(v < clock - a)}
    /\ UNCHANGED aState

\* --------------------------------------------------------------------- Next
\* A step of thread t, other than the beginning or the return of Generate
\* and the beginning of SetSeen, which the specifications observe differently.
ThreadSteps(t) ==
    \/ GenLock(t)
    \/ GenNow(t)
    \/ GenLoop(t)
    \/ GenLoopEnd(t)
    \/ GenStore(t)
    \/ SeenCall(t)
    \/ SeenRLock(t)
    \/ SeenRead(t)
    \/ SeenRUnlock(t)
    \/ SetSeenLock(t)
    \/ SetSeenStore(t)
    \/ SetSeenUnlock(t)
    \/ ExpireCall(t)
    \/ ExpireLock(t)
    \/ ExpireLimit(t)
    \/ ExpireRange(t)
    \/ ExpireUnlock(t)

Steps ==
    \/ ClockAdvance
    \/ ClockSetBack
    \/ \E t \in Threads : ThreadSteps(t)

Next ==
    \/ Steps
    \/ \E t \in Threads : GenCall(t)
    \/ \E t \in Threads : GenUnlock(t)
    \/ \E t \in Threads : SetSeenCall(t)

Spec == Init /\ [][Next]_vars

\* The same program, with every Generate call observed from its caller's
\* side (sample, floor).
NextCaller ==
    \/ Steps
    \/ \E t \in Threads : GenCallObserved(t)
    \/ \E t \in Threads : GenUnlock(t)
    \/ \E t \in Threads : SetSeenCall(t)

SpecCaller == Init /\ [][NextCaller]_vars

\* The same program in its nonce use, where the Serials marked are Serials
\* that Generate has returned, observed with the generation-time history
\* genAt.
NextAge ==
    \/ Steps
    \/ \E t \in Threads : GenCall(t)
    \/ \E t \in Threads : GenUnlockAt(t)
    \/ \E t \in Threads : SetSeenCallIssued(t)

SpecAge == Init /\ [][NextAge]_vars

\* The same program on a machine whose clock may stand at or before the Unix
\* epoch when the Generator is made.
InitEpoch == clock \in EpochClockValues /\ Constructed

SpecEpoch == InitEpoch /\ [][Next]_vars

\* The same program under the scheduling of the Go runtime.  A thread
\* that can run its next statement does run it; a thread that waits for a
\* lock gets it if the lock comes free again and again, since the runtime
\* hands a released lock to a goroutine that has waited long; and a Lock
\* call on seenmutex that finds Seen calls inside bars the later ones.
\* Nothing obliges a thread to begin a call, or the clock to move.
Running(t) ==
    \/ GenNow(t)
    \/ GenLoop(t)
    \/ GenLoopEnd(t)
    \/ GenStore(t)
    \/ GenUnlock(t)
    \/ SeenRead(t)
    \/ SeenRUnlock(t)
    \/ SetSeenStore(t)
    \/ SetSeenUnlock(t)
    \/ ExpireLimit(t)
    \/ ExpireRange(t)
    \/ ExpireUnlock(t)

SeenLockAcquire(t) == SetSeenLock(t) \/ ExpireLock(t) \/ SeenLockPend(t)

Fairness ==
    \A t \in Threads :
        /\ WF_vars(Running(t))
        /\ SF_vars(GenLock(t))
        /\ SF_vars(SeenRLock(t))
        /\ SF_vars(SeenLockAcquire(t))

NextFair ==
    \/ Next
    \/ \E t \in Threads : SeenLockPend(t)

SpecFair == Init /\ [][NextFair]_vars /\ Fairness

\* Two Generators side by side: one thread uses the first, statement by
\* statement, and a goroutine of its own uses peer.
NextTwo ==
    \/ ClockAdvance
    \/ ClockSetBack
    \/ \E t \in {"t1"} :
           ThreadSteps(t) \/ GenCall(t) \/ GenUnlock(t) \/ SetSeenCall(t)
    \/ PeerGenerate
    \/ PeerSetSeen
    \/ PeerExpireSeen

SpecTwo == Init /\ [][NextTwo]_vars

\* ------------------------------------------------------------------ claims
\* The value Generate is about to return, once lastSerial is stored.
Returning(t) == pc[t] = "gen_unlock"
\* ExpireSeen has finished its scan and still holds the lock.
Scanned(t) == pc[t] = "exp_unlock"

\* C1 Uniqueness: whatever the interleaving of the threads and whatever the
\* clock does, no Serial is returned by Generate twice.
Uniqueness == \A v \in BagToSet(issued) : CopiesIn(v, issued) = 1

\* Two calls have returned and two more run at once, one of them blocked on
\* the lock the other holds.
UniquenessWitness ==
    /\ BagCardinality(issued) >= 2
    /\ \E t, u \in Threads : pc[t] = "gen_store" /\ pc[u] = "gen_lock"

\* C2 Monotonicity: a Generate call returns a Serial greater than every
\* Serial returned by a call that had completed before it began.
Monotonicity ==
    \A t \in Threads :
        Returning(t) /\ floor[t] # None => id[t] > floor[t]

\* A call that began after another returned, read a clock set back below
\* that Serial, and ran while the other thread was in Generate too.
MonotonicityWitness ==
    \E t, u \in Threads :
        /\ Returning(t) /\ floor[t] # None /\ tnow[t] < floor[t]
        /\ pc[u] = "gen_lock"

\* C3 Lower bound: the Serial a Generate call returns is at least the clock
\* value that call read.
AtLeastOwnReading ==
    \A t \in Threads : Returning(t) => id[t] >= tnow[t]

\* A call whose Serial was pushed forward by the ratchet.
AtLeastOwnReadingWitness ==
    \E t \in Threads : Returning(t) /\ id[t] > tnow[t]

\* C4 as stated: the Serial a Generate call returns is at least the clock
\* value its caller sampled immediately before the call.
AtLeastCallerSample ==
    \A t \in Threads : Returning(t) => id[t] >= sample[t]

\* C4 amended: the same, for the calls whose own clock reading is not
\* earlier than the caller's sample (the clock was not set back in between).
AtLeastCallerSampleNoSetBack ==
    \A t \in Threads :
        Returning(t) /\ tnow[t] >= sample[t] => id[t] >= sample[t]

\* A call during which the clock advanced past the caller's sample.
AtLeastCallerSampleWitness ==
    \E t \in Threads : Returning(t) /\ tnow[t] > sample[t]

\* C5 Seen: the seen-set holds exactly the Serials passed to SetSeen and not
\* removed by ExpireSeen since, and Seen(x) answers membership in it; a
\* Serial never passed to SetSeen is not seen, issued by Generate or not.
SeenIffMarked ==
    /\ seen = live
    /\ \A t \in Threads : pc[t] = "seen_runlock" => (ok[t] <=> x[t] \in live)

\* Two Seen calls read at once: one answers true, the other answers false
\* for a Serial that Generate has issued and nobody has marked.
SeenIffMarkedWitness ==
    \E t, u \in Threads :
        /\ pc[t] = "seen_runlock" /\ ok[t]
        /\ pc[u] = "seen_runlock" /\ ~ok[u] /\ x[u] \in IssuedIds

\* C6 No eviction but by ExpireSeen: a step that removes a Serial from the
\* seen-set is an iteration of some thread's ExpireSeen loop; clock steps
\* and the steps of Generate, Seen and SetSeen remove nothing.
OnlyExpireRemoves ==
    [][(\E v \in seen : v \notin seen')
         => \E t \in Threads : pc[t] = "exp_range" /\ todo'[t] # todo[t]]_vars

\* A marked Serial older than the clock stays seen while nobody expires.
OnlyExpireRemovesWitness ==
    /\ \E v \in seen : v < clock
    /\ issued # EmptyBag
    /\ \A t \in Threads : pc[t] \in {"idle", "set_unlock"}
    /\ \E t \in Threads : pc[t] = "set_unlock"

\* C7 ExpireSeen(ageLimit): when the scan is over the seen-set is what it
\* was when the call took the lock, less exactly the Serials smaller than
\* the clock reading of the call minus ageLimit.
ExpireRemovesBelowCutoff ==
    \A t \in Threads :
        Scanned(t) =>
            seen = {k \in snap[t] : ~(k < tnow[t] - agelimit[t])}

\* A scan with a positive age limit that removed one Serial and kept another.
ExpireRemovesBelowCutoffWitness ==
    \E t \in Threads :
        Scanned(t) /\ agelimit[t] > 0 /\ snap[t] \ seen # {} /\ seen # {}

\* C8 Full expiry: after ExpireSeen(0) no Serial marked before
\* the call is seen.
FullExpiry ==
    \A t \in Threads :
        Scanned(t) /\ agelimit[t] = 0 => \A v \in snap[t] : v \notin seen

\* The clock readings of the Generate calls that returned the Serial i.
GeneratedAt(i) == {p[2] : p \in {q \in genAt : q[1] = i}}

\* C9 Age-based expiry: ExpireSeen(ageLimit) deletes every issued and marked
\* Serial generated more than ageLimit before the call and keeps every one
\* generated within ageLimit of it.
ExpireByGenerationTime ==
    \A t \in Threads :
        Scanned(t) =>
            \A i \in snap[t] : \A g \in GeneratedAt(i) :
                /\ tnow[t] - g > agelimit[t] => i \notin seen
                /\ tnow[t] - g <= agelimit[t] => i \in seen

\* C10 Idempotence: SetSeen(x) leaves x seen, and when x is seen already it
\* leaves the seen-set as it was.
SetSeenIdempotent ==
    [][\A t \in Threads :
          pc[t] = "set_store" /\ pc'[t] = "set_unlock"
              => /\ x[t] \in seen'
                 /\ x[t] \in seen => seen' = seen]_vars

\* SetSeen(x) is about to store a Serial that is seen already, beside
\* another seen Serial.
SetSeenIdempotentWitness ==
    \E t \in Threads :
        pc[t] = "set_store" /\ x[t] \in seen /\ seen # {x[t]}

\* C11 Instance isolation: a step of a call on the shared Generator leaves
\* peer's lastSerial and seen-set as they were, a call on peer leaves the
\* shared Generator's as they were, and Seen(x) on peer is true only of the
\* Serials marked on peer itself, whatever was marked on the shared one.
InstanceIsolation ==
    /\ [](\A v \in Serials : Seen(Receiver(peer), v) <=> v \in peerLive)
    /\ [][/\ (pc' # pc \/ id' # id \/ todo' # todo) => peer' = peer
          /\ peer' # peer => lastSerial' = lastSerial /\ seen' = seen]_vars

\* A Serial is marked on the shared Generator and not on peer, which holds
\* a mark and a ratchet of its own, while a SetSeen call on the shared
\* Generator holds its lock.
InstanceIsolationWitness ==
    /\ \E v \in seen : ~Seen(Receiver(peer), v)
    /\ \E v \in peerLive : v \notin seen
    /\ peer.lastSerial > lastSerial
    /\ pc["t1"] = "set_unlock"

\* The first Generate call on the Generator has stored its Serial: nothing
\* was returned before, and it holds the lock until it returns.
FirstReturning(t) == Returning(t) /\ issued = EmptyBag

\* C12 as stated: NewGenerator returns an empty Generator, on which Seen is
\* false for every Serial and SetSeen works at once, with the ratchet so
\* low that the first Generate call returns exactly its clock reading.
FreshGenerator ==
    /\ \A v \in Serials : ~Seen(Shared, v)
    /\ [][\A t \in Threads :
             pc[t] = "set_store" /\ pc'[t] = "set_unlock" /\ seen = {}
                 => seen' = {x[t]}]_vars
    /\ [](\A t \in Threads : FirstReturning(t) => id[t] = tnow[t])

\* C12 amended: the ratchet starts at zero, and the first Generate call
\* returns exactly its clock reading when that reading is positive.
FreshGeneratorAtZero ==
    /\ lastSerial = 0
    /\ \A v \in Serials : ~Seen(Shared, v)
    /\ [][\A t \in Threads :
             pc[t] = "set_store" /\ pc'[t] = "set_unlock" /\ seen = {}
                 => seen' = {x[t]}]_vars
    /\ [](\A t \in Threads :
             FirstReturning(t) /\ tnow[t] > 0 => id[t] = tnow[t])

\* The first Generate call returns its positive clock reading while the
\* first SetSeen call has stored its Serial in the new map.
FreshGeneratorAtZeroWitness ==
    \E t, u \in Threads :
        /\ FirstReturning(t) /\ tnow[t] > 0 /\ id[t] = tnow[t]
        /\ pc[u] = "set_unlock" /\ seen = {x[u]}

\* Thread t executes g.lastSerial = id in this step; it holds the lock, so
\* lastSerial is still the value the call found on entry.
Storing(t) == pc[t] = "gen_store" /\ pc'[t] = "gen_unlock"

\* C13 Ratchet: Generate stores and returns the greater of its clock reading
\* and one more than the lastSerial it found, hence one more than the
\* lastSerial it found whenever the clock reading is not beyond that; when
\* it returns, lastSerial is the Serial returned.
RatchetResult ==
    /\ [][\A t \in Threads :
             Storing(t) =>
                 /\ lastSerial' = Max({tnow[t], lastSerial + 1})
                 /\ tnow[t] <= lastSerial => lastSerial' = lastSerial + 1]_vars
    /\ [](\A t \in Threads : Returning(t) => lastSerial = id[t])

\* The third of three calls that read the same clock value returns the
\* third of three consecutive Serials.
RatchetResultWitness ==
    \E t \in Threads :
        /\ Returning(t) /\ id[t] = tnow[t] + 2
        /\ {tnow[t], tnow[t] + 1} \subseteq IssuedIds

\* The Serials Generate has issued: those returned and the one a call has
\* stored and is about to return.
Stored == IssuedIds \cup {id[t] : t \in {u \in Threads : Returning(u)}}

\* C14 Forward-only ratchet: with a clock that may be set back between any
\* two steps, no step lowers lastSerial, lastSerial is always the greatest
\* Serial issued so far (its initial value when none is), and every store of
\* Generate raises it.
ForwardOnly ==
    /\ [][lastSerial' >= lastSerial]_vars
    /\ [](lastSerial = Max(Stored \cup {NewGenerator.lastSerial}))
    /\ [][\A t \in Threads : Storing(t) => lastSerial' > lastSerial]_vars

\* A call returns a Serial above its clock reading, which is earlier than
\* the reading of a call that returned before: the clock was set back.
ForwardOnlyWitness ==
    \E t \in Threads :
        /\ Returning(t) /\ id[t] > tnow[t]
        /\ \E p \in genAt : p[2] > tnow[t] /\ p[1] < id[t]

\* Thread t is between Lock and Unlock of seenmutex, in SetSeen or ExpireSeen.
Writing(t) ==
    pc[t] \in {"set_store", "set_unlock", "exp_limit", "exp_range",
               "exp_unlock"}
\* Thread t is between RLock and RUnlock of seenmutex, in Seen.
Reading(t) == pc[t] \in {"seen_read", "seen_runlock"}

\* C15 Reader/writer discipline: while a thread is inside the critical
\* section of SetSeen or ExpireSeen no other thread is inside that of Seen,
\* SetSeen or ExpireSeen, so that no Seen call reads during a scan; a Seen
\* call may enter while another Seen call is inside.
ReadersWriterDiscipline ==
    /\ \A t, u \in Threads :
           t # u /\ Writing(t) => ~Writing(u) /\ ~Reading(u)
    /\ \A t, u \in Threads : Reading(t) => pc[u] # "exp_range"
    /\ \A t, u \in Threads :
           pc[t] = "seen_rlock" /\ Reading(u) => ENABLED SeenRLock(t)

\* An ExpireSeen scan has deleted one Serial and has more to look at, while
\* a Seen call waits for the lock.
ReadersWriterDisciplineWitness ==
    \E t, u \in Threads :
        /\ pc[t] = "exp_range" /\ snap[t] # seen /\ todo[t] # {}
        /\ pc[u] = "seen_rlock"

\* Thread t has begun Generate and has not returned.
InGenerate(t) ==
    pc[t] \in {"gen_lock", "gen_now", "gen_loop", "gen_store", "gen_unlock"}
\* Thread t has begun Seen, SetSeen or ExpireSeen and has not returned.
InSeenSet(t) == pc[t] # "idle" /\ ~InGenerate(t)
\* Thread t holds the mutex m.
Holds(m, t) == m.writer = t \/ t \in m.readers

\* The next step of thread t in Generate.
GenerateStep(t) ==
    \/ GenLock(t)
    \/ GenNow(t)
    \/ GenLoop(t)
    \/ GenLoopEnd(t)
    \/ GenStore(t)
    \/ GenReturns(t)

\* The next step of thread t in Seen, SetSeen or ExpireSeen.
SeenSetStep(t) ==
    \/ SeenRLock(t)
    \/ SeenRead(t)
    \/ SeenRUnlock(t)
    \/ SetSeenLock(t)
    \/ SetSeenStore(t)
    \/ SetSeenUnlock(t)
    \/ ExpireLock(t)
    \/ ExpireLimit(t)
    \/ ExpireRange(t)
    \/ ExpireUnlock(t)

\* C16 Independent locks: a thread in Generate can take its next step
\* unless it waits for lastmutex and lastmutex is held, whoever holds
\* seenmutex; a thread in Seen, SetSeen or ExpireSeen can take its next step
\* unless it waits for seenmutex and seenmutex is held, whoever holds
\* lastmutex; and no thread holds both locks.
LocksIndependent ==
    /\ \A t \in Threads :
           InGenerate(t) /\ (pc[t] = "gen_lock" => CanLock(lastmutex))
               => ENABLED GenerateStep(t)
    /\ \A t \in Threads :
           (/\ InSeenSet(t)
            /\ pc[t] = "seen_rlock" => CanRLock(seenmutex)
            /\ pc[t] \in {"set_lock", "exp_lock"} => CanLock(seenmutex))
               => ENABLED SeenSetStep(t)
    /\ \A t \in Threads : ~(Holds(lastmutex, t) /\ Holds(seenmutex, t))

\* A Generate call is about to take the free ratchet lock while an
\* ExpireSeen scan, not yet over, holds the seen-set lock.
LocksIndependentWitness ==
    \E t, u \in Threads :
        /\ pc[t] = "gen_lock" /\ CanLock(lastmutex)
        /\ pc[u] = "exp_range" /\ todo[u] # {}

\* Thread t takes a step in this transition: each step of a thread changes
\* its statement, its id or the keys its scan has left.
Moves(t) == pc'[t] # pc[t] \/ id'[t] # id[t] \/ todo'[t] # todo[t]
\* The step is the call or a statement of Generate, Seen, SetSeen, ExpireSeen.
GenerateMoves(t) == Moves(t) /\ (InGenerate(t) \/ pc'[t] = "gen_lock")
SeenMoves(t) ==
    Moves(t) /\ (pc[t] \in {"seen_rlock", "seen_read", "seen_runlock"}
                    \/ pc'[t] = "seen_rlock")
SetSeenMoves(t) ==
    Moves(t) /\ (pc[t] \in {"set_lock", "set_store", "set_unlock"}
                    \/ pc'[t] = "set_lock")
ExpireSeenMoves(t) ==
    Moves(t) /\ (pc[t] \in {"exp_lock", "exp_limit", "exp_range",
                            "exp_unlock"}
                    \/ pc'[t] = "exp_lock")

\* C17 Frame conditions: no step of Generate changes the seen-set, no step
\* of SetSeen or ExpireSeen changes lastSerial, no step of Seen changes
\* either, and SetSeen(x) changes the membership of no Serial but x.
FrameConditions ==
    [][\A t \in Threads :
          /\ GenerateMoves(t) => seen' = seen
          /\ SetSeenMoves(t) \/ ExpireSeenMoves(t) => lastSerial' = lastSerial
          /\ SeenMoves(t) => seen' = seen /\ lastSerial' = lastSerial
          /\ SetSeenMoves(t) =>
                 \A v \in Serials \ {x'[t], x[t]} : v \in seen' <=> v \in seen
      ]_vars

\* Generate is about to store a Serial and SetSeen is about to mark a new
\* one, beside the Serials seen and issued already.
FrameConditionsWitness ==
    \E t, u \in Threads :
        /\ pc[t] = "gen_store" /\ lastSerial > 0
        /\ pc[u] = "set_store" /\ seen # {} /\ x[u] \notin seen

\* C19 Fresh identifiers are unseen: when SetSeen is only ever called with
\* Serials that Generate has returned, no Serial in the seen-set is greater
\* than lastSerial, and the Serial a Generate call is about to return is not
\* in the seen-set.
FreshUnseen ==
    /\ \A v \in seen : v <= lastSerial
    /\ \A t \in Threads : Returning(t) => ~Seen(Shared, id[t])

\* The Serial equal to the clock reading of the call is seen already, so
\* only the ratchet made the Serial of the call a fresh one.
FreshUnseenWitness ==
    \E t \in Threads :
        Returning(t) /\ id[t] > tnow[t] /\ Seen(Shared, tnow[t])

\* C18 No operation blocks indefinitely: under the scheduling of SpecFair,
\* every Generate, Seen, SetSeen and ExpireSeen call that has begun returns.
EveryCallReturns ==
    \A t \in Threads : (pc[t] # "idle") ~> (pc[t] = "idle")

====
